---------------------------- MODULE Spec2Model ----------------------------
(***************************************************************************)
(* The orchestration graph of the financial analyst team.                  *)
(*                                                                         *)
(* main.py keeps a dict `state` between turns, appends the user's entry,   *)
(* resets results / next_agents and calls graph.invoke(state).  The graph  *)
(* of graph.py runs in supersteps: every node scheduled for a superstep    *)
(* reads the channel values of the superstep's start, the nodes' partial   *)
(* updates are merged by the per-field reducers of state.py when all of    *)
(* them have returned, and the edges leaving the nodes that ran give the   *)
(* nodes of the next superstep.                                            *)
(*                                                                         *)
(* Collaborators (the LLM, the tools) are nondeterministic: an answer is   *)
(* drawn from a small set, or the call raises.                             *)
(***************************************************************************)
EXTENDS Naturals, Sequences, FiniteSets

(***************************************************************************)
(* Bounds of the model.                                                    *)
(***************************************************************************)
\* turns the caller's loop is followed for
MaxTurns == 2
\* pieces (words, blanks, commas) in one answer of the decision collaborator
MaxAnswerLen == 3
\* names in one of the longer well-formed answers of the decision
\* collaborator (SpecDispatch)
MaxPendingLen == 3
\* supersteps graph.invoke runs before it raises GraphRecursionError
\* (the library's default of 25, scaled down)
RecursionLimit == 6
\* failed turns at the end of an accumulated history (InitHistory)
MaxFailedTurns == 1
\* keys in one partial update of the reducer's own specification
MaxPartialKeys == 2
\* tool calls in one response of a work unit's collaborator (SpecRounds)
MaxToolCalls == 2

(***************************************************************************)
(* Program constants.                                                      *)
(***************************************************************************)
\* agents.py:51  if len(messages) < 10
Threshold == 10
\* agents.py:57  messages[:-2] / messages[-2:]
KeepRecent == 2
\* agents.py:288  for _ in range(2)
TraderLoop == 2

\* agents.py:194  for _ in range(3)
PriceLoop == 3
\* agents.py:240  for _ in range(4)
FundamentalLoop == 4
\* portfolio_advisor.py:113  for _ in range(8)
AdvisorLoop == 8

\* agents.py:165  the names the orchestrator recognises
AgentNames == {"price", "fundamental", "trader", "portfolio_advisor", "reporter"}

\* graph.py:37-47  the nodes of the graph
Nodes == AgentNames \cup {"manage_length", "orchestrator", "both_analysts", "synthesize"}

(***************************************************************************)
(* Texts.  A work unit's stored text is the collaborator's last answer;    *)
(* only whether it begins with the failure marker is ever inspected        *)
(* (graph.py:71), so a text is a name for its origin and its marker.       *)
(* "trading_complete" is the trader's fixed text of agents.py:310.         *)
(***************************************************************************)
OutputsOf(a) ==
  CASE a = "price"             -> {"price_text"}
    [] a = "fundamental"       -> {"fundamental_text"}
    [] a = "trader"            -> {"trader_text", "x_trader_text", "trading_complete"}
    [] a = "portfolio_advisor" -> {"advisor_text"}
    [] a = "reporter"          -> {"report_text"}

\* graph.py:71  .startswith("❌")
StartsWithFailureMarker(t) == t \in {"x_trader_text"}

(***************************************************************************)
(* Conversation entries (langchain messages): id, role, content.           *)
(***************************************************************************)
HumanMessage(i)     == [id |-> i, role |-> "human",  content |-> "user_text"]
SystemMessage(i, c) == [id |-> i, role |-> "system", content |-> c]
AIMessage(i, c)     == [id |-> i, role |-> "ai",     content |-> c]
RemoveMessage(i)    == [id |-> i, role |-> "remove", content |-> ""]

Range(s) == {s[i] : i \in 1..Len(s)}
Ids(s) == {s[i].id : i \in 1..Len(s)}

RECURSIVE DropIds(_, _)
\* the entries of s whose id is not in gone, in order
DropIds(s, gone) ==
  IF s = <<>> THEN <<>>
  ELSE IF Head(s).id \in gone THEN DropIds(Tail(s), gone)
       ELSE <<Head(s)>> \o DropIds(Tail(s), gone)

ReplaceById(s, m) == [i \in 1..Len(s) |-> IF s[i].id = m.id THEN m ELSE s[i]]

RECURSIVE MergeById(_, _, _)
\* add_messages' loop over the right-hand list: an entry whose id is known
\* replaces the old one in place (a RemoveMessage marks it), a new one is
\* appended; the marked ids are dropped at the end
MergeById(merged, right, gone) ==
  IF right = <<>> THEN DropIds(merged, gone)
  ELSE LET m == Head(right) IN
       IF m.id \in Ids(merged)
       THEN IF m.role = "remove"
            THEN MergeById(merged, Tail(right), gone \cup {m.id})
            ELSE MergeById(ReplaceById(merged, m), Tail(right), gone \ {m.id})
       \* (a RemoveMessage of an unknown id raises ValueError in the library;
       \* manage_length only removes ids of the log it read)
       ELSE MergeById(Append(merged, m), Tail(right), gone)

\* state.py:40  messages: Annotated[List[AnyMessage], add_messages]
add_messages(left, right) == MergeById(left, right, {})

(***************************************************************************)
(* Result Sets: functions from a set of work-unit names to texts.          *)
(***************************************************************************)
EmptyResults == <<>>

ResultSets ==
  UNION {{f \in [S -> UNION {OutputsOf(a) : a \in AgentNames}] :
            \A a \in S : f[a] \in OutputsOf(a)} : S \in SUBSET AgentNames}

\* a reducer that keeps only the newer dict (what a field without a reducer does)
merge_results_overwrite(x, y) == y

\* a reducer in which the current text of a key wins over the update's
merge_results_keep_old(x, y) ==
  [k \in (DOMAIN x) \cup (DOMAIN y) |-> IF k \in DOMAIN x THEN x[k] ELSE y[k]]

\* a reducer that keeps the newer dict when it holds a key
merge_results_newest_only(x, y) == IF DOMAIN y = {} THEN x ELSE y

\* state.py:43  results: Annotated[Dict[str, str], lambda x, y: {**x, **y}]
merge_results(x, y) ==
  [k \in (DOMAIN x) \cup (DOMAIN y) |-> IF k \in DOMAIN y THEN y[k] ELSE x[k]]

(***************************************************************************)
(* Partial updates: a record with some of the fields messages, results,    *)
(* next_agents.  {} is the record with no field.                           *)
(***************************************************************************)
EmptyUpdate == <<>>

\* a merge that empties the Pending Set when an update does not name it
ApplyUpdate_clears(st, u) ==
  [messages    |-> IF "messages" \in DOMAIN u
                   THEN add_messages(st.messages, u.messages) ELSE st.messages,
   results     |-> IF "results" \in DOMAIN u
                   THEN merge_results(st.results, u.results) ELSE st.results,
   next_agents |-> IF "next_agents" \in DOMAIN u
                   THEN u.next_agents ELSE <<>>]

\* a merge that keeps the old Pending Set in front of the new one
ApplyUpdate_appends(st, u) ==
  [messages    |-> IF "messages" \in DOMAIN u
                   THEN add_messages(st.messages, u.messages) ELSE st.messages,
   results     |-> IF "results" \in DOMAIN u
                   THEN merge_results(st.results, u.results) ELSE st.results,
   next_agents |-> IF "next_agents" \in DOMAIN u
                   THEN st.next_agents \o u.next_agents ELSE st.next_agents]

\* a merge that takes the log from the update alone
ApplyUpdate_log_from_update(st, u) ==
  [messages    |-> IF "messages" \in DOMAIN u
                   THEN add_messages(st.messages, u.messages) ELSE <<>>,
   results     |-> IF "results" \in DOMAIN u
                   THEN merge_results(st.results, u.results) ELSE st.results,
   next_agents |-> IF "next_agents" \in DOMAIN u
                   THEN u.next_agents ELSE st.next_agents]

\* state.py:15-46  the three channels and their reducers; next_agents has
\* none, so a write replaces it
ApplyUpdate(st, u) ==
  [messages    |-> IF "messages" \in DOMAIN u
                   THEN add_messages(st.messages, u.messages) ELSE st.messages,
   results     |-> IF "results" \in DOMAIN u
                   THEN merge_results(st.results, u.results) ELSE st.results,
   next_agents |-> IF "next_agents" \in DOMAIN u
                   THEN u.next_agents ELSE st.next_agents]

\* the names in the order the orchestrator's prompt lists them (agents.py:165)
NameOrder == <<"price", "fundamental", "trader", "portfolio_advisor", "reporter">>

RECURSIVE KeysAfter(_, _)
\* {**x, **y} keeps the keys of x where they are and puts the new keys of y
\* behind them (a work unit writes one key)
KeysAfter(order, ws) ==
  IF ws = <<>> THEN order
  ELSE LET u     == Head(ws)
           fresh == IF "results" \in DOMAIN u
                    THEN SelectSeq(NameOrder,
                           LAMBDA k : k \in DOMAIN u.results /\ k \notin Range(order))
                    ELSE <<>>
       IN KeysAfter(order \o fresh, Tail(ws))

RECURSIVE ApplyWrites(_, _)
\* the updates of one superstep, applied in the order the tasks returned
ApplyWrites(st, ws) ==
  IF ws = <<>> THEN st ELSE ApplyWrites(ApplyUpdate(st, Head(ws)), Tail(ws))

(***************************************************************************)
(* manage_conversation_length                                              *)
(***************************************************************************)
\* agents.py:68  the summarisation collaborator is called from the threshold on
CallsSummarizer(msgs) == ~(Len(msgs) < Threshold)

\* the same with the comparison off by one
manage_update_late(msgs, sid) ==
  IF Len(msgs) <= Threshold THEN EmptyUpdate
  ELSE [messages |-> <<SystemMessage(sid, "summary_text")>>
          \o [i \in 1..(Len(msgs) - KeepRecent) |-> RemoveMessage(msgs[i].id)]]

\* the same keeping one entry less than KeepRecent
manage_update_keep_less(msgs, sid) ==
  IF Len(msgs) < Threshold THEN EmptyUpdate
  ELSE [messages |-> <<SystemMessage(sid, "summary_text")>>
          \o [i \in 1..(Len(msgs) - KeepRecent + 1) |-> RemoveMessage(msgs[i].id)]]

\* the same removing the old entries without adding a summary
manage_update_no_summary(msgs, sid) ==
  IF Len(msgs) < Threshold THEN EmptyUpdate
  ELSE [messages |-> [i \in 1..(Len(msgs) - KeepRecent) |-> RemoveMessage(msgs[i].id)]]

\* the same keeping one entry more than KeepRecent
manage_update_keep_more(msgs, sid) ==
  IF Len(msgs) < Threshold THEN EmptyUpdate
  ELSE [messages |-> <<SystemMessage(sid, "summary_text")>>
          \o [i \in 1..(Len(msgs) - KeepRecent - 1) |-> RemoveMessage(msgs[i].id)]]

\* agents.py:41-83  the partial update of manage_conversation_length; sid is
\* the id the new summary entry gets
manage_update(msgs, sid) ==
  IF Len(msgs) < Threshold THEN EmptyUpdate
  ELSE [messages |-> <<SystemMessage(sid, "summary_text")>>
          \o [i \in 1..(Len(msgs) - KeepRecent) |-> RemoveMessage(msgs[i].id)]]

(***************************************************************************)
(* orchestrator                                                            *)
(***************************************************************************)
\* An answer of the decision collaborator is a text.  A text is a sequence of
\* pieces: a work-unit name in lower case, one name and the marker in upper
\* case, a letter that belongs to no name, a blank and a comma.  No name and
\* no concatenation of pieces holds "done" except through the piece itself,
\* so the substring test of agents.py:168 is a test on the pieces.
Pieces == AgentNames \cup {"PRICE", "done", "DONE", "x", " ", ","}

RECURSIVE SeqsUpTo(_, _)
SeqsUpTo(S, n) ==
  IF n = 0 THEN {<<>>}
  ELSE LET shorter == SeqsUpTo(S, n - 1) IN
       shorter \cup {Append(q, x) : q \in {r \in shorter : Len(r) = n - 1}, x \in S}

Answers == SeqsUpTo(Pieces, MaxAnswerLen)

\* agents.py:157  .lower()
lower(text) ==
  [i \in 1..Len(text) |-> CASE text[i] = "PRICE" -> "price"
                            [] text[i] = "DONE"  -> "done"
                            [] OTHER             -> text[i]]

\* agents.py:157  .strip(): blanks at both ends go
strip(text) ==
  LET inked == {i \in 1..Len(text) : text[i] # " "} IN
  IF inked = {} THEN <<>>
  ELSE LET first == CHOOSE i \in inked : \A j \in inked : i <= j
           last  == CHOOSE i \in inked : \A j \in inked : j <= i
       IN SubSeq(text, first, last)

\* agents.py:163  .replace(",", " ")
replace_commas(text) == [i \in 1..Len(text) |-> IF text[i] = "," THEN " " ELSE text[i]]

RECURSIVE SplitFrom(_, _, _)
\* agents.py:163  .split(): the maximal runs without a blank, in order; word
\* is the run being read
SplitFrom(text, word, words) ==
  IF text = <<>>
  THEN IF word = <<>> THEN words ELSE Append(words, word)
  ELSE IF Head(text) = " "
       THEN SplitFrom(Tail(text), <<>>, IF word = <<>> THEN words ELSE Append(words, word))
       ELSE SplitFrom(Tail(text), Append(word, Head(text)), words)

split(text) == SplitFrom(text, <<>>, <<>>)

\* agents.py:165  word in ["price", "fundamental", "trader", ...]: a word is a
\* name when it is that one piece
IsAgentName(word) == Len(word) = 1 /\ word[1] \in AgentNames

\* agents.py:168  "done" in decision: a substring test on the whole answer
HoldsDoneMarker(decision) == \E i \in 1..Len(decision) : decision[i] = "done"

\* the parser without the test for the marker
parse_decision_no_marker(answer) ==
  LET decision == lower(strip(answer))
      names    == SelectSeq(split(replace_commas(decision)), IsAgentName)
  IN [i \in 1..Len(names) |-> names[i][1]]

\* a parser that keeps every word of the answer
parse_decision_any_word(answer) ==
  LET decision    == lower(strip(answer))
      words       == split(replace_commas(decision))
      agent_names == [i \in 1..Len(words) |-> words[i][1]]
  IN IF HoldsDoneMarker(decision) \/ agent_names = <<>> THEN <<>> ELSE agent_names

\* agents.py:156-173  the Pending Set the orchestrator returns for an answer
parse_decision(answer) ==
  LET decision    == lower(strip(answer))
      names       == SelectSeq(split(replace_commas(decision)), IsAgentName)
      agent_names == [i \in 1..Len(names) |-> names[i][1]]
  IN IF HoldsDoneMarker(decision) \/ agent_names = <<>> THEN <<>> ELSE agent_names

\* an orchestrator that also notes its decision in the log
orchestrator_update_noted(pending) ==
  [next_agents |-> pending, messages |-> <<AIMessage(0, "decision_text")>>]

\* agents.py:170, 173  return {"next_agents": ...}
orchestrator_update(pending) == [next_agents |-> pending]

\* the Pending Sets the orchestrator can return
Decisions == {parse_decision(answer) : answer \in Answers}

RECURSIVE Joined(_)
\* a well-formed answer: the names of a list, a comma between two of them
Joined(names) ==
  IF Len(names) <= 1 THEN names
  ELSE <<Head(names), ",">> \o Joined(Tail(names))

\* the names the longer lists are made of: the parallel pair, the unit the
\* trading guard is about, and one other
ListNames == {"price", "fundamental", "trader", "reporter"}

\* the lists of the well-formed answers followed: every list of up to two
\* names, and the lists of up to MaxPendingLen of ListNames
Lists == SeqsUpTo(AgentNames, 2) \cup SeqsUpTo(ListNames, MaxPendingLen)

\* the Pending Sets the orchestrator returns for these answers
ListDecisions == {parse_decision(Joined(names)) : names \in Lists}

(***************************************************************************)
(* trader: the tool loop of agents.py:288-308.  Each round the model       *)
(* collaborator either answers with a text, which ends the loop, or asks   *)
(* for a tool, which is called and its text handed back.  buy_stock and    *)
(* sell_stock catch the executor's exception and return a text that begins *)
(* with the failure marker (trading.py:139-142, 214-216).                  *)
(***************************************************************************)
\* what the model collaborator answers in one round: a text, a text that
\* begins with the failure marker, an order that is placed, an order that
\* fails, a call of get_portfolio / get_orders
Replies == {"say", "say_failed", "order_placed", "order_fails", "lookup"}

IsSay(r)   == r \in {"say", "say_failed"}
IsOrder(r) == r \in {"order_placed", "order_fails"}

\* the rounds of one run of the loop: a text ends it (agents.py:292-293),
\* and so does the last round
TraderRuns ==
  {run \in SeqsUpTo(Replies, TraderLoop) :
     /\ run # <<>>
     /\ \A i \in 1..(Len(run) - 1) : ~IsSay(run[i])
     /\ Len(run) < TraderLoop => IsSay(run[Len(run)])}

\* agents.py:310  the last entry's content when it is the collaborator's
\* text, else "Trading complete"
trader_summary(run) ==
  CASE run[Len(run)] = "say"        -> "trader_text"
    [] run[Len(run)] = "say_failed" -> "x_trader_text"
    [] OTHER                        -> "trading_complete"

\* agents.py:296-302  the orders of a run, in the order they were issued
OrdersOf(run) == SelectSeq(run, IsOrder)

\* an order issued after an order of the same run failed
ReissuesInRun(run) ==
  \E i \in 1..Len(run), j \in 1..Len(run) :
    i < j /\ run[i] = "order_fails" /\ IsOrder(run[j])

(***************************************************************************)
(* The graph of graph.py                                                   *)
(***************************************************************************)
\* the routing function without its check for a failed trade
route_without_guard(agents, res) ==
  IF agents = <<>> THEN "done"
  ELSE IF Len(agents) = 1 THEN agents[1]
  ELSE IF {"price", "fundamental"} \subseteq Range(agents) THEN "both_analysts"
  ELSE agents[1]

\* the routing function giving up when several names hold no pair
route_drop_rest(agents, res) ==
  IF agents = <<>> THEN "done"
  ELSE IF "trader" \in Range(agents) /\ "trader" \in DOMAIN res
          /\ StartsWithFailureMarker(res["trader"]) THEN "done"
  ELSE IF Len(agents) = 1 THEN agents[1]
  ELSE IF {"price", "fundamental"} \subseteq Range(agents) THEN "both_analysts"
  ELSE "done"

\* the routing function sending a lone analyst through the fan-out
route_single_to_pair(agents, res) ==
  IF agents = <<>> THEN "done"
  ELSE IF "trader" \in Range(agents) /\ "trader" \in DOMAIN res
          /\ StartsWithFailureMarker(res["trader"]) THEN "done"
  ELSE IF Len(agents) = 1
  THEN (IF agents[1] \in {"price", "fundamental"} THEN "both_analysts" ELSE agents[1])
  ELSE IF {"price", "fundamental"} \subseteq Range(agents) THEN "both_analysts"
  ELSE agents[1]

\* the routing function recognising the pair only when nothing else is asked for
route_pair_alone(agents, res) ==
  IF agents = <<>> THEN "done"
  ELSE IF "trader" \in Range(agents) /\ "trader" \in DOMAIN res
          /\ StartsWithFailureMarker(res["trader"]) THEN "done"
  ELSE IF Len(agents) = 1 THEN agents[1]
  ELSE IF Range(agents) = {"price", "fundamental"} THEN "both_analysts"
  ELSE agents[1]

\* the routing function taking the last name of several
route_last_wins(agents, res) ==
  IF agents = <<>> THEN "done"
  ELSE IF "trader" \in Range(agents) /\ "trader" \in DOMAIN res
          /\ StartsWithFailureMarker(res["trader"]) THEN "done"
  ELSE IF Len(agents) = 1 THEN agents[1]
  ELSE IF {"price", "fundamental"} \subseteq Range(agents) THEN "both_analysts"
  ELSE agents[Len(agents)]

\* graph.py:54-88  route_from_orchestrator
route_from_orchestrator(agents, res) ==
  IF agents = <<>> THEN "done"
  ELSE IF "trader" \in Range(agents) /\ "trader" \in DOMAIN res
          /\ StartsWithFailureMarker(res["trader"]) THEN "done"
  ELSE IF Len(agents) = 1 THEN agents[1]
  ELSE IF {"price", "fundamental"} \subseteq Range(agents) THEN "both_analysts"
  ELSE agents[1]

\* graph.py:90-102  the mapping of the conditional edge
RouteTarget(r) == IF r = "done" THEN "synthesize" ELSE r

\* the edges with the fan-out wired as a chain: fundamental runs after price,
\* beside the orchestrator
edges_chained(n, st) ==
  CASE n = "manage_length" -> {"orchestrator"}
    [] n = "orchestrator"  ->
         {RouteTarget(route_from_orchestrator(st.next_agents, st.results))}
    [] n = "both_analysts" -> {"price"}
    [] n = "price"         -> IF "fundamental" \in Range(st.next_agents)
                              THEN {"fundamental", "orchestrator"}
                              ELSE {"orchestrator"}
    [] n = "synthesize"    -> {}
    [] OTHER               -> {"orchestrator"}

\* a fan-out that starts the trader beside the two analysts
edges_trader_beside(n, st) ==
  CASE n = "manage_length" -> {"orchestrator"}
    [] n = "orchestrator"  ->
         {RouteTarget(route_from_orchestrator(st.next_agents, st.results))}
    [] n = "both_analysts" -> {"price", "fundamental", "trader"}
    [] n = "synthesize"    -> {}
    [] OTHER               -> {"orchestrator"}

\* a loop that goes back to the compactor after each work unit
edges_back_to_compactor(n, st) ==
  CASE n = "manage_length" -> {"orchestrator"}
    [] n = "orchestrator"  ->
         {RouteTarget(route_from_orchestrator(st.next_agents, st.results))}
    [] n = "both_analysts" -> {"price", "fundamental"}
    [] n = "synthesize"    -> {}
    [] OTHER               -> {"manage_length"}

\* graph.py:50-51, 90-116  the nodes an edge leaving n leads to, st being the
\* state with the superstep's updates merged; {} is END
edges(n, st) ==
  CASE n = "manage_length" -> {"orchestrator"}
    [] n = "orchestrator"  ->
         {RouteTarget(route_from_orchestrator(st.next_agents, st.results))}
    [] n = "both_analysts" -> {"price", "fundamental"}
    [] n = "synthesize"    -> {}
    [] OTHER               -> {"orchestrator"}

(***************************************************************************)
(* State                                                                   *)
(***************************************************************************)
VARIABLES
  state,          \* main.py:51  the dict the caller keeps between turns
  messages,       \* the graph's channels while graph.invoke runs
  results,
  next_agents,
  phase,          \* "idle": the caller awaits input; "running": inside graph.invoke
  outcome,        \* how the last graph.invoke ended
  todo,           \* nodes of the current superstep that have not returned
  ran,            \* nodes of the current superstep that returned, in that order
  writes,         \* their partial updates, in that order
  prev,           \* the nodes of the previous superstep, in the order they returned
  step,           \* number of the current superstep
  turn,           \* turns started
  nextId,         \* ids given so far (stands for fresh uuids)
  synth_runs,     \* runs of the finalizer in this turn
  summary_calls,  \* calls of the summarisation collaborator in this turn
  reducer,        \* the reducer's own specification: inputs and outputs
  key_order,      \* the keys of the current results dict in the order they were inserted
  composer_calls, \* what the composition collaborator was called with in this turn
  trade_failed,   \* a call of buy_stock / sell_stock has failed in this turn
  trade_retried,  \* buy_stock / sell_stock was called after such a failure
  parsed,         \* the parser's own specification: an answer and its Pending Set
  router,         \* in the superstep after a routing pass: the list the pass
                  \* answered, and the names of the list before it that were
                  \* not dispatched
  merged,         \* the merge's own specification: a state, a partial update,
                  \* and the state after it
  loop            \* a work unit's loop on its own: the unit, the calls of its
                  \* collaborator so far, its agent_messages from the prompt
                  \* on, its return

vars == <<state, messages, results, next_agents, phase, outcome, todo, ran,
          writes, prev, step, turn, nextId, synth_runs, summary_calls, reducer,
          key_order, composer_calls, trade_failed, trade_retried, parsed,
          router, merged, loop>>

Channels == [messages |-> messages, results |-> results, next_agents |-> next_agents]

Tasks == todo \cup Range(ran)

NoMerge == [cur |-> EmptyResults, a |-> EmptyResults, b |-> EmptyResults,
            ab |-> EmptyResults, ba |-> EmptyResults, done |-> FALSE]

NoParse == [answer |-> <<>>, pending |-> <<>>, done |-> FALSE]

NoAnswer == [answer |-> <<>>, deferred |-> {}]

NoApply == [st |-> [messages |-> <<>>, results |-> EmptyResults, next_agents |-> <<>>],
            u |-> EmptyUpdate,
            out |-> [messages |-> <<>>, results |-> EmptyResults, next_agents |-> <<>>],
            done |-> FALSE]

NoLoop == [unit |-> "reporter", calls |-> 0, log |-> <<"prompt">>, update |-> EmptyUpdate,
           done |-> FALSE]

\* the fields the caller and the nodes of the graph never touch
Apart == <<reducer, parsed, merged, loop>>

\* what is true of a turn that has called nothing yet
NothingCalled ==
  /\ key_order = <<>>
  /\ composer_calls = <<>>
  /\ trade_failed = FALSE
  /\ trade_retried = FALSE
  /\ router = NoAnswer

\* main.py:51-55  the state after construction
Init ==
  /\ state = [messages |-> <<>>, results |-> EmptyResults, next_agents |-> <<>>]
  /\ messages = <<>>
  /\ results = EmptyResults
  /\ next_agents = <<>>
  /\ phase = "idle"
  /\ outcome = "none"
  /\ todo = {}
  /\ ran = <<>>
  /\ writes = <<>>
  /\ prev = <<>>
  /\ step = 0
  /\ turn = 0
  /\ nextId = 1
  /\ synth_runs = 0
  /\ summary_calls = 0
  /\ reducer = NoMerge
  /\ parsed = NoParse
  /\ merged = NoApply
  /\ loop = NoLoop
  /\ NothingCalled

(***************************************************************************)
(* The work units and the finalizer                                        *)
(***************************************************************************)
\* a work unit that also appends its text to the log
unit_update_with_log(a, text) ==
  [results |-> [k \in {a} |-> text], messages |-> <<AIMessage(0, text)>>]

\* agents.py:215, 266, 312, 399 and portfolio_advisor.py:151
\* return {"results": {<own name>: <text>}}
unit_update(a, text) == [results |-> [k \in {a} |-> text]]

\* graph.py:47  lambda s: s
both_analysts_update(st) == st

\* the finalizer joining the stored texts in the order their keys came in
Parts_as_inserted(res) ==
  SelectSeq(key_order,
            LAMBDA k : k \in {"price", "fundamental", "trader", "portfolio_advisor"}
                        /\ k \in DOMAIN res)

\* agents.py:426-434  the keys whose texts the finalizer joins, in its fixed order
Parts(res) ==
  SelectSeq(<<"price", "fundamental", "trader", "portfolio_advisor">>,
            LAMBDA k : k \in DOMAIN res)

\* agents.py:450  the texts of those keys, in that order
Combined(res) == [i \in 1..Len(Parts(res)) |-> res[Parts(res)[i]]]

\* agents.py:471  the composition collaborator is called
CallsComposer(res) == "reporter" \notin DOMAIN res /\ Parts(res) # <<>>

\* the finalizer answering nothing when there is no result
synthesize_update_silent(res, aid) ==
  IF "reporter" \in DOMAIN res
  THEN [messages |-> <<AIMessage(aid, res["reporter"])>>]
  ELSE IF Parts(res) = <<>> THEN EmptyUpdate
  ELSE [messages |-> <<AIMessage(aid, "composed_text")>>]

\* the finalizer composing whenever there is something to compose
synthesize_update_compose_first(res, aid) ==
  IF Parts(res) # <<>>
  THEN [messages |-> <<AIMessage(aid, "composed_text")>>]
  ELSE IF "reporter" \in DOMAIN res
  THEN [messages |-> <<AIMessage(aid, res["reporter"])>>]
  ELSE [messages |-> <<AIMessage(aid, "fallback_text")>>]

\* the finalizer composing an answer from nothing
synthesize_update_compose_empty(res, aid) ==
  IF "reporter" \in DOMAIN res
  THEN [messages |-> <<AIMessage(aid, res["reporter"])>>]
  ELSE [messages |-> <<AIMessage(aid, "composed_text")>>]

\* a finalizer that hands a failure-flagged trader text to the user as it is
synthesize_update_failure_verbatim(res, aid) ==
  IF "reporter" \in DOMAIN res
  THEN [messages |-> <<AIMessage(aid, res["reporter"])>>]
  ELSE IF Parts(res) = <<>>
  THEN [messages |-> <<AIMessage(aid, "fallback_text")>>]
  ELSE IF "trader" \in DOMAIN res /\ StartsWithFailureMarker(res["trader"])
  THEN [messages |-> <<AIMessage(aid, res["trader"])>>]
  ELSE [messages |-> <<AIMessage(aid, "composed_text")>>]

\* agents.py:402-473  synthesize_final_response; aid is the new entry's id
synthesize_update(res, aid) ==
  IF "reporter" \in DOMAIN res
  THEN [messages |-> <<AIMessage(aid, res["reporter"])>>]
  ELSE IF Parts(res) = <<>>
  THEN [messages |-> <<AIMessage(aid, "fallback_text")>>]
  ELSE [messages |-> <<AIMessage(aid, "composed_text")>>]

(***************************************************************************)
(* The caller (main.py) around graph.invoke                                *)
(***************************************************************************)
\* a caller that appends the user's entry and resets nothing
new_request_no_reset(st, uid) ==
  [messages    |-> Append(st.messages, HumanMessage(uid)),
   results     |-> st.results,
   next_agents |-> st.next_agents]

\* a caller that resets the Pending Set and keeps the results of the turn before
new_request_keep_results(st, uid) ==
  [messages    |-> Append(st.messages, HumanMessage(uid)),
   results     |-> st.results,
   next_agents |-> <<>>]

\* main.py:70-75  the user's entry is appended, results and next_agents reset
new_request(st, uid) ==
  [messages    |-> Append(st.messages, HumanMessage(uid)),
   results     |-> EmptyResults,
   next_agents |-> <<>>]

\* main.py:81-84  state = final_state
on_invoke_return(st, final) == final

\* a caller that keeps what the graph had reached when it raised
on_invoke_error_partial(st, reached) == reached

\* a caller that keeps the results the graph had gathered when it raised
on_invoke_error_keep_results(st, reached) == [st EXCEPT !.results = reached.results]

\* a caller that keeps the log the graph had reached when it raised
on_invoke_error_compacted(st, reached) == [st EXCEPT !.messages = reached.messages]

\* main.py:98-100  the exception is logged and `state` stays as it was
on_invoke_error(st, reached) == st

\* graph.invoke is over: its channels are gone
Leave(kind, st) ==
  /\ state' = st
  /\ phase' = "idle"
  /\ outcome' = kind
  /\ messages' = <<>>
  /\ results' = EmptyResults
  /\ next_agents' = <<>>
  /\ todo' = {}
  /\ ran' = <<>>
  /\ writes' = <<>>
  /\ prev' = <<>>
  \* the caller's results dict: the final one, or the {} it set before the turn
  /\ key_order' = IF kind = "finalized" THEN key_order ELSE <<>>
  /\ UNCHANGED <<step, turn, Apart>>

(***************************************************************************)
(* A node returns.  The last node of a superstep to return closes it: the  *)
(* updates are merged, the edges give the next superstep; no node left is  *)
(* END, and a superstep beyond the recursion limit raises.                 *)
(* (graph.py:121 compile; main.py:81 invoke without a recursion_limit)     *)
(***************************************************************************)
\* a scheduler that merges a node's update the moment the node returns
Complete_eager(n, u) ==
  LET ws   == Append(writes, u)
      done == Append(ran, n)
  IN IF todo # {n}
     THEN /\ todo' = todo \ {n}
          /\ ran' = done
          /\ writes' = ws
          /\ messages' = ApplyUpdate(Channels, u).messages
          /\ results' = ApplyUpdate(Channels, u).results
          /\ next_agents' = ApplyUpdate(Channels, u).next_agents
          /\ UNCHANGED <<state, phase, outcome, prev, step, turn, key_order, Apart>>
     ELSE LET st  == ApplyWrites(Channels, ws)
              nxt == UNION {edges(done[i], st) : i \in 1..Len(done)}
          IN IF nxt = {}
             THEN Leave("finalized", on_invoke_return(state, st))
             ELSE IF step >= RecursionLimit
             THEN Leave("recursion_error", on_invoke_error(state, st))
             ELSE /\ messages' = st.messages
                  /\ results' = st.results
                  /\ next_agents' = st.next_agents
                  /\ todo' = nxt
                  /\ ran' = <<>>
                  /\ writes' = <<>>
                  /\ prev' = done
                  /\ step' = step + 1
                  /\ key_order' = KeysAfter(key_order, ws)
                  /\ UNCHANGED <<state, phase, outcome, turn, Apart>>

Complete(n, u) ==
  LET ws   == Append(writes, u)
      done == Append(ran, n)
  IN IF todo # {n}
     THEN /\ todo' = todo \ {n}
          /\ ran' = done
          /\ writes' = ws
          /\ UNCHANGED <<state, messages, results, next_agents, phase, outcome,
                         prev, step, turn, key_order, Apart>>
     ELSE LET st  == ApplyWrites(Channels, ws)
              nxt == UNION {edges(done[i], st) : i \in 1..Len(done)}
          IN IF nxt = {}
             THEN Leave("finalized", on_invoke_return(state, st))
             ELSE IF step >= RecursionLimit
             THEN Leave("recursion_error", on_invoke_error(state, st))
             ELSE /\ messages' = st.messages
                  /\ results' = st.results
                  /\ next_agents' = st.next_agents
                  /\ todo' = nxt
                  /\ ran' = <<>>
                  /\ writes' = <<>>
                  /\ prev' = done
                  /\ step' = step + 1
                  /\ key_order' = KeysAfter(key_order, ws)
                  /\ UNCHANGED <<state, phase, outcome, turn, Apart>>

(***************************************************************************)
(* Actions                                                                 *)
(***************************************************************************)
\* main.py:58-81  one round of the caller's loop up to graph.invoke(state):
\* the input is written through the reducers and START leads to manage_length
UserInput ==
  /\ phase = "idle"
  /\ turn < MaxTurns
  /\ LET st == new_request(state, nextId) IN
       /\ state' = st
       /\ messages' = add_messages(<<>>, st.messages)
       /\ results' = merge_results(EmptyResults, st.results)
       /\ next_agents' = st.next_agents
  /\ phase' = "running"
  /\ outcome' = "none"
  /\ todo' = {"manage_length"}
  /\ ran' = <<>>
  /\ writes' = <<>>
  /\ prev' = <<>>
  /\ step' = 1
  /\ turn' = turn + 1
  /\ nextId' = nextId + 1
  /\ synth_runs' = 0
  /\ summary_calls' = 0
  /\ key_order' = <<>>
  /\ composer_calls' = <<>>
  /\ trade_failed' = FALSE
  /\ trade_retried' = FALSE
  /\ router' = NoAnswer
  /\ UNCHANGED Apart

\* agents.py:41-83
ManageLength ==
  /\ phase = "running"
  /\ "manage_length" \in todo
  /\ LET u == manage_update(messages, nextId) IN
       /\ Complete("manage_length", u)
       /\ nextId' = IF u = EmptyUpdate THEN nextId ELSE nextId + 1
  /\ summary_calls' = summary_calls + (IF CallsSummarizer(messages) THEN 1 ELSE 0)
  /\ UNCHANGED <<synth_runs, composer_calls, trade_failed, trade_retried>>
  /\ router' = NoAnswer

\* agents.py:86-173  the orchestrator, its answers parsed to one of D
OrchestratorOn(D) ==
  /\ phase = "running"
  /\ "orchestrator" \in todo
  /\ \E pending \in D :
       /\ Complete("orchestrator", orchestrator_update(pending))
       \* what this pass answered, and the names of the list it replaces
       \* that no work unit ran for
       /\ router' = IF phase' = "running"
                    THEN [answer   |-> pending,
                          deferred |-> Range(next_agents) \ Range(prev)]
                    ELSE NoAnswer
  /\ UNCHANGED <<nextId, synth_runs, summary_calls, composer_calls,
                 trade_failed, trade_retried>>

Orchestrator == OrchestratorOn(Decisions)

\* graph.py:47
BothAnalysts ==
  /\ phase = "running"
  /\ "both_analysts" \in todo
  /\ Complete("both_analysts", both_analysts_update(Channels))
  /\ UNCHANGED <<nextId, synth_runs, summary_calls, composer_calls,
                 trade_failed, trade_retried>>
  /\ router' = NoAnswer

WorkUnit(a) ==
  /\ phase = "running"
  /\ a \in todo
  /\ \E text \in OutputsOf(a) : Complete(a, unit_update(a, text))
  /\ UNCHANGED <<nextId, synth_runs, summary_calls, composer_calls,
                 trade_failed, trade_retried>>
  /\ router' = NoAnswer

\* agents.py:176-215
PriceAnalyst == WorkUnit("price")
\* agents.py:218-266
FundamentalAnalyst == WorkUnit("fundamental")
\* agents.py:269-312
Trader ==
  /\ phase = "running"
  /\ "trader" \in todo
  /\ \E run \in TraderRuns :
       /\ Complete("trader", unit_update("trader", trader_summary(run)))
       /\ trade_failed' = (trade_failed \/ "order_fails" \in Range(run))
       /\ trade_retried' = (\/ trade_retried
                            \/ ReissuesInRun(run)
                            \/ (trade_failed /\ OrdersOf(run) # <<>>))
  /\ UNCHANGED <<nextId, synth_runs, summary_calls, composer_calls>>
  /\ router' = NoAnswer
\* portfolio_advisor.py:24-151
PortfolioAdvisor == WorkUnit("portfolio_advisor")
\* agents.py:315-399
Reporter == WorkUnit("reporter")

\* agents.py:402-473
Synthesize ==
  /\ phase = "running"
  /\ "synthesize" \in todo
  /\ Complete("synthesize", synthesize_update(results, nextId))
  /\ nextId' = nextId + 1
  /\ synth_runs' = synth_runs + 1
  /\ composer_calls' = IF CallsComposer(results)
                       THEN Append(composer_calls, Combined(results))
                       ELSE composer_calls
  /\ UNCHANGED <<summary_calls, trade_failed, trade_retried>>
  /\ router' = NoAnswer

\* the nodes whose body calls a collaborator in the current state
CallsCollaborator(n) ==
  CASE n = "manage_length" -> CallsSummarizer(messages)
    [] n = "both_analysts" -> FALSE
    [] n = "synthesize"    -> CallsComposer(results)
    [] OTHER               -> TRUE

\* a collaborator's call raises inside a node: no node catches it, graph.invoke
\* raises and main.py:98 catches
CollaboratorRaises ==
  /\ phase = "running"
  /\ \E n \in todo : CallsCollaborator(n)
  /\ Leave("collaborator_error", on_invoke_error(state, Channels))
  /\ UNCHANGED <<nextId, synth_runs, summary_calls, composer_calls,
                 trade_failed, trade_retried>>
  /\ router' = NoAnswer

Next ==
  \/ UserInput
  \/ ManageLength
  \/ Orchestrator
  \/ BothAnalysts
  \/ PriceAnalyst
  \/ FundamentalAnalyst
  \/ Trader
  \/ PortfolioAdvisor
  \/ Reporter
  \/ Synthesize
  \/ CollaboratorRaises

Spec == Init /\ [][Next]_vars

(***************************************************************************)
(* A caller that has already been through some turns.  k turns that ended  *)
(* with the finalizer's answer (one price lookup each), then j turns that  *)
(* raised, leave the log (user, answer)^k user^j: main.py keeps the user's *)
(* entry of a failed turn and nothing else of it.  k answered turns        *)
(* without a compaction need 2k - 1 < Threshold.                           *)
(***************************************************************************)
HistoryLog(k, j) ==
  [i \in 1..(2 * k + j) |->
     IF i <= 2 * k /\ i % 2 = 0 THEN AIMessage(i, "composed_text") ELSE HumanMessage(i)]

InitHistory ==
  /\ \E k \in 0..(Threshold \div 2), j \in 0..MaxFailedTurns :
       /\ state = [messages    |-> HistoryLog(k, j),
                   results     |-> IF j = 0 /\ k > 0
                                   THEN [a \in {"price"} |-> "price_text"]
                                   ELSE EmptyResults,
                   next_agents |-> <<>>]
       /\ outcome = IF j > 0 THEN "collaborator_error"
                    ELSE IF k > 0 THEN "finalized" ELSE "none"
       \* the last turn's supersteps: five when answered; a failed one is taken
       \* to raise in its first call of a collaborator
       /\ step = IF j > 0 THEN (IF 2 * k + j < Threshold THEN 2 ELSE 1)
                 ELSE IF k > 0 THEN 5 ELSE 0
       /\ synth_runs = IF j = 0 /\ k > 0 THEN 1 ELSE 0
       /\ nextId = 2 * k + j + 1
  /\ messages = <<>>
  /\ results = EmptyResults
  /\ next_agents = <<>>
  /\ phase = "idle"
  /\ todo = {}
  /\ ran = <<>>
  /\ writes = <<>>
  /\ prev = <<>>
  \* one more turn is followed
  /\ turn = MaxTurns - 1
  /\ summary_calls = 0
  /\ reducer = NoMerge
  /\ parsed = NoParse
  /\ merged = NoApply
  /\ loop = NoLoop
  /\ NothingCalled

SpecHistory == InitHistory /\ [][Next]_vars

(***************************************************************************)
(* The reducer of results on its own: a current Result Set and two partial *)
(* updates, merged in both orders.                                         *)
(***************************************************************************)
Partials == {f \in ResultSets : Cardinality(DOMAIN f) <= MaxPartialKeys}

InitMerge ==
  /\ state = [messages |-> <<>>, results |-> EmptyResults, next_agents |-> <<>>]
  /\ messages = <<>>
  /\ results = EmptyResults
  /\ next_agents = <<>>
  /\ phase = "idle"
  /\ outcome = "none"
  /\ todo = {}
  /\ ran = <<>>
  /\ writes = <<>>
  /\ prev = <<>>
  /\ step = 0
  /\ turn = 0
  /\ nextId = 1
  /\ synth_runs = 0
  /\ summary_calls = 0
  /\ parsed = NoParse
  /\ merged = NoApply
  /\ loop = NoLoop
  /\ NothingCalled
  /\ \E c \in ResultSets, x \in Partials, y \in Partials :
       reducer = [cur |-> c, a |-> x, b |-> y,
                  ab |-> EmptyResults, ba |-> EmptyResults, done |-> FALSE]

WithResults(c) == [messages |-> <<>>, results |-> c, next_agents |-> <<>>]

\* the two updates go through the reducer one after the other, in both orders
MergeBoth ==
  /\ ~reducer.done
  /\ reducer' =
       [reducer EXCEPT
          !.ab = ApplyWrites(WithResults(reducer.cur),
                             <<[results |-> reducer.a], [results |-> reducer.b]>>).results,
          !.ba = ApplyWrites(WithResults(reducer.cur),
                             <<[results |-> reducer.b], [results |-> reducer.a]>>).results,
          !.done = TRUE]
  /\ UNCHANGED <<state, messages, results, next_agents, phase, outcome, todo, ran,
                 writes, prev, step, turn, nextId, synth_runs, summary_calls,
                 key_order, composer_calls, trade_failed, trade_retried, parsed,
                 router, merged, loop>>

NextMerge == MergeBoth

SpecMerge == InitMerge /\ [][NextMerge]_vars

(***************************************************************************)
(* The merge of one partial update on its own: a state and an update drawn *)
(* from bounded sets, the update applied through the channels' reducers.   *)
(***************************************************************************)
\* the logs a merge starts from
UpdateLogs == {<<>>, <<HumanMessage(1), AIMessage(2, "composed_text")>>}

\* the Pending Sets a merge starts from
UpdateLists == {<<>>, <<"price", "fundamental">>}

InitUpdate ==
  /\ state = [messages |-> <<>>, results |-> EmptyResults, next_agents |-> <<>>]
  /\ messages = <<>>
  /\ results = EmptyResults
  /\ next_agents = <<>>
  /\ phase = "idle"
  /\ outcome = "none"
  /\ todo = {}
  /\ ran = <<>>
  /\ writes = <<>>
  /\ prev = <<>>
  /\ step = 0
  /\ turn = 0
  /\ nextId = 1
  /\ synth_runs = 0
  /\ summary_calls = 0
  /\ parsed = NoParse
  /\ reducer = NoMerge
  /\ loop = NoLoop
  /\ NothingCalled
  /\ \E log \in UpdateLogs, res \in ResultSets, list \in UpdateLists :
       LET st == [messages |-> log, results |-> res, next_agents |-> list] IN
         \/ merged = [st |-> st, u |-> EmptyUpdate, out |-> st, done |-> FALSE]
         \/ \E p \in Partials :
              merged = [st |-> st, u |-> [results |-> p], out |-> st, done |-> FALSE]
         \/ \E pending \in {<<>>, <<"reporter">>} :
              merged = [st |-> st, u |-> orchestrator_update(pending),
                        out |-> st, done |-> FALSE]
         \/ merged = [st |-> st, u |-> [messages |-> <<AIMessage(3, "composed_text")>>],
                      out |-> st, done |-> FALSE]

\* the update goes through the reducers of the three channels
ApplyPartial ==
  /\ ~merged.done
  /\ merged' = [merged EXCEPT !.out = ApplyUpdate(merged.st, merged.u),
                              !.done = TRUE]
  /\ UNCHANGED <<state, messages, results, next_agents, phase, outcome, todo, ran,
                 writes, prev, step, turn, nextId, synth_runs, summary_calls,
                 reducer, key_order, composer_calls, trade_failed, trade_retried,
                 parsed, router, loop>>

NextUpdate == ApplyPartial

SpecUpdate == InitUpdate /\ [][NextUpdate]_vars

(***************************************************************************)
(* A work unit's loop on its own: the collaborator is called, answers with *)
(* a text or asks for tools; the tools' outputs are appended and the       *)
(* collaborator is called again, up to the unit's number of rounds.        *)
(***************************************************************************)
\* the rounds of a unit's loop; the reporter calls its collaborator once
\* (agents.py:397)
LoopBudget(a) ==
  CASE a = "price"             -> PriceLoop
    [] a = "fundamental"       -> FundamentalLoop
    [] a = "trader"            -> TraderLoop
    [] a = "portfolio_advisor" -> AdvisorLoop
    [] a = "reporter"          -> 1

\* agents.py:211, 262, 310, portfolio_advisor.py:149  the fixed text stored
\* when the last entry is not the collaborator's
Placeholder(a) ==
  CASE a = "price"             -> "price_analysis_complete"
    [] a = "fundamental"       -> "fundamental_analysis_complete"
    [] a = "trader"            -> "trading_complete"
    [] a = "portfolio_advisor" -> "i_can_help"
    [] a = "reporter"          -> "none"

\* the texts a unit's collaborator can answer with
SaidBy(a) == OutputsOf(a) \ {Placeholder(a)}

\* isinstance(agent_messages[-1], AIMessage)
IsAIMessage(entry) == entry \notin {"prompt", "tool_output"}

\* a loop that goes on for as long as the collaborator asks for tools
loop_continues_while_asked(l) == ~IsAIMessage(l.log[Len(l.log)])

\* agents.py:194-198  the loop's header and its break: another round starts
\* while rounds are left and the last response asked for tools
loop_continues(l) ==
  /\ l.calls < LoopBudget(l.unit)
  /\ ~IsAIMessage(l.log[Len(l.log)])

\* agents.py:211  agent_messages[-1].content if it is an AIMessage, else the
\* fixed text
final_text(l) ==
  IF IsAIMessage(l.log[Len(l.log)]) THEN l.log[Len(l.log)] ELSE Placeholder(l.unit)

RECURSIVE ToolOutputs(_)
\* one ToolMessage for each tool call of a response
ToolOutputs(k) == IF k = 0 THEN <<>> ELSE Append(ToolOutputs(k - 1), "tool_output")

InitRounds ==
  /\ state = [messages |-> <<>>, results |-> EmptyResults, next_agents |-> <<>>]
  /\ messages = <<>>
  /\ results = EmptyResults
  /\ next_agents = <<>>
  /\ phase = "idle"
  /\ outcome = "none"
  /\ todo = {}
  /\ ran = <<>>
  /\ writes = <<>>
  /\ prev = <<>>
  /\ step = 0
  /\ turn = 0
  /\ nextId = 1
  /\ synth_runs = 0
  /\ summary_calls = 0
  /\ parsed = NoParse
  /\ reducer = NoMerge
  /\ merged = NoApply
  /\ NothingCalled
  /\ \E a \in AgentNames : loop = [NoLoop EXCEPT !.unit = a]

\* everything but the loop
Outside == <<state, messages, results, next_agents, phase, outcome, todo, ran,
             writes, prev, step, turn, nextId, synth_runs, summary_calls,
             reducer, key_order, composer_calls, trade_failed, trade_retried,
             parsed, router, merged>>

\* agents.py:195-198  the collaborator answers with a text: the loop breaks
CollaboratorAnswers ==
  /\ ~loop.done
  /\ loop_continues(loop)
  /\ \E text \in SaidBy(loop.unit) :
       loop' = [loop EXCEPT !.calls = @ + 1, !.log = Append(@, text)]
  /\ UNCHANGED Outside

\* agents.py:195-209  the collaborator asks for tools: each call's output is
\* appended (the reporter's collaborator has no tools)
CollaboratorAsksTools ==
  /\ ~loop.done
  /\ loop_continues(loop)
  /\ loop.unit # "reporter"
  /\ \E k \in 1..MaxToolCalls :
       loop' = [loop EXCEPT !.calls = @ + 1,
                            !.log = Append(@, "tool_request") \o ToolOutputs(k)]
  /\ UNCHANGED Outside

\* agents.py:211-215  the loop is over: the unit returns its update
UnitReturns ==
  /\ ~loop.done
  /\ ~loop_continues(loop)
  /\ loop' = [loop EXCEPT !.update = unit_update(loop.unit, final_text(loop)),
                          !.done = TRUE]
  /\ UNCHANGED Outside

NextRounds ==
  \/ CollaboratorAnswers
  \/ CollaboratorAsksTools
  \/ UnitReturns

SpecRounds == InitRounds /\ [][NextRounds]_vars

(***************************************************************************)
(* One turn from construction in which the decision collaborator's answers *)
(* are the well-formed lists of up to MaxPendingLen names.                 *)
(***************************************************************************)
FirstInput == turn = 0 /\ UserInput

OrchestratorOnLists == OrchestratorOn(ListDecisions)

NextDispatch ==
  \/ FirstInput
  \/ ManageLength
  \/ OrchestratorOnLists
  \/ BothAnalysts
  \/ PriceAnalyst
  \/ FundamentalAnalyst
  \/ Trader
  \/ PortfolioAdvisor
  \/ Reporter
  \/ Synthesize
  \/ CollaboratorRaises

SpecDispatch == Init /\ [][NextDispatch]_vars

(***************************************************************************)
(* The finalizer on its own: the first turn has come to the finalizer with *)
(* any Result Set, its keys inserted in any order (each work unit having   *)
(* run once, one after the other; graph.invoke's recursion limit is 25).   *)
(***************************************************************************)
Perms(S) ==
  {q \in [1..Cardinality(S) -> S] : \A i, j \in 1..Cardinality(S) : q[i] = q[j] => i = j}

InitFinalize ==
  /\ state = new_request([messages |-> <<>>, results |-> EmptyResults,
                          next_agents |-> <<>>], 1)
  /\ messages = <<HumanMessage(1)>>
  /\ \E res \in ResultSets :
       /\ results = res
       /\ key_order \in Perms(DOMAIN res)
       /\ step = 3 + 2 * Cardinality(DOMAIN res)
       \* the routing pass that led here: an empty list, or trader asked for
       \* again after a failure-flagged result
       /\ \/ next_agents = <<>>
          \/ /\ "trader" \in DOMAIN res
             /\ StartsWithFailureMarker(res["trader"])
             /\ next_agents = <<"trader">>
  /\ router = [answer |-> next_agents, deferred |-> {}]
  /\ phase = "running"
  /\ outcome = "none"
  /\ todo = {"synthesize"}
  /\ ran = <<>>
  /\ writes = <<>>
  /\ prev = <<"orchestrator">>
  /\ turn = 1
  /\ nextId = 2
  /\ synth_runs = 0
  /\ summary_calls = 0
  /\ composer_calls = <<>>
  /\ trade_failed = FALSE
  /\ trade_retried = FALSE
  /\ reducer = NoMerge
  /\ parsed = NoParse
  /\ merged = NoApply
  /\ loop = NoLoop

NextFinalize ==
  \/ Synthesize
  \/ CollaboratorRaises

SpecFinalize == InitFinalize /\ [][NextFinalize]_vars

(***************************************************************************)
(* The orchestrator's parser on its own: an answer, and its Pending Set.   *)
(***************************************************************************)
InitParse ==
  /\ state = [messages |-> <<>>, results |-> EmptyResults, next_agents |-> <<>>]
  /\ messages = <<>>
  /\ results = EmptyResults
  /\ next_agents = <<>>
  /\ phase = "idle"
  /\ outcome = "none"
  /\ todo = {}
  /\ ran = <<>>
  /\ writes = <<>>
  /\ prev = <<>>
  /\ step = 0
  /\ turn = 0
  /\ nextId = 1
  /\ synth_runs = 0
  /\ summary_calls = 0
  /\ reducer = NoMerge
  /\ merged = NoApply
  /\ loop = NoLoop
  /\ NothingCalled
  /\ \E answer \in Answers :
       parsed = [answer |-> answer, pending |-> <<>>, done |-> FALSE]

\* agents.py:156-173  the answer is parsed
ParseDecision ==
  /\ ~parsed.done
  /\ parsed' = [parsed EXCEPT !.pending = parse_decision(parsed.answer), !.done = TRUE]
  /\ UNCHANGED <<state, messages, results, next_agents, phase, outcome, todo, ran,
                 writes, prev, step, turn, nextId, synth_runs, summary_calls, reducer,
                 key_order, composer_calls, trade_failed, trade_retried, router, merged,
                 loop>>

NextParse == ParseDecision

SpecParse == InitParse /\ [][NextParse]_vars

(***************************************************************************)
(* Properties                                                              *)
(***************************************************************************)
Pair == {"price", "fundamental"}

Last(s) == s[Len(s)]

\* graph.py:66-74  what makes the routing function answer "done"
PendingEmpty(agents) == agents = <<>>
FailedTradeRequested(agents, res) ==
  /\ "trader" \in Range(agents)
  /\ "trader" \in DOMAIN res
  /\ StartsWithFailureMarker(res["trader"])

\* C1: when the Pending Set is exactly the two names price and fundamental,
\* the next superstep is the fan-out node alone, the one after it runs price
\* and fundamental together, and when both have returned (in either order)
\* the orchestrator runs on a Result Set that holds both keys.
C1_FanOutJoin ==
  (phase = "running"
     /\ next_agents \in {<<"price", "fundamental">>, <<"fundamental", "price">>})
  => \/ Tasks = {"both_analysts"} /\ prev = <<"orchestrator">>
     \/ Tasks = Pair /\ prev = <<"both_analysts">>
     \/ Tasks = {"orchestrator"} /\ Range(prev) = Pair /\ Pair \subseteq DOMAIN results

\* fundamental returned before price, and both keys are there at the join
C1_Witness ==
  /\ phase = "running"
  /\ next_agents = <<"price", "fundamental">>
  /\ prev = <<"fundamental", "price">>
  /\ todo = {"orchestrator"}
  /\ Pair \subseteq DOMAIN results

\* C2: the join is a barrier.  The orchestrator never shares a superstep with
\* another node; the superstep after the price/fundamental group is one run
\* of the orchestrator, with both results merged; and while the group runs,
\* a member that returns changes nothing of the Result Set and starts no
\* orchestrator.
C2_Barrier ==
  /\ [](phase = "running" =>
          /\ ("orchestrator" \in Tasks => Tasks = {"orchestrator"})
          /\ (Range(prev) = Pair =>
                /\ Tasks = {"orchestrator"}
                /\ Len(prev) = 2
                /\ Pair \subseteq DOMAIN results)
          /\ (Tasks = Pair => prev = <<"both_analysts">> /\ Len(writes) = Len(ran)))
  /\ [][(phase = "running" /\ Tasks = Pair /\ todo # {} /\ phase' = "running"
           /\ todo' # todo)
          => \/ (todo' # {} /\ Tasks' = Pair /\ results' = results /\ prev' = prev)
             \/ (todo' = {"orchestrator"} /\ Range(prev') = Pair
                   /\ Pair \subseteq DOMAIN results')]_vars

\* price returned first, fundamental second, and the orchestrator is about to run
C2_Witness ==
  /\ phase = "running"
  /\ prev = <<"price", "fundamental">>
  /\ todo = {"orchestrator"}
  /\ ran = <<>>
  /\ Pair \subseteq DOMAIN results

\* C3: when the Pending Set the orchestrator returned holds trader and the
\* Result Set holds a trader text that begins with the failure marker, the
\* next superstep is the finalizer alone: no work unit is dispatched.
C3_TradeGuard ==
  (phase = "running" /\ prev = <<"orchestrator">>
     /\ FailedTradeRequested(next_agents, results))
  => (Tasks = {"synthesize"} /\ Tasks \cap AgentNames = {})

\* the guard with trader among two requested names
C3_Witness ==
  /\ phase = "running"
  /\ prev = <<"orchestrator">>
  /\ FailedTradeRequested(next_agents, results)
  /\ Len(next_agents) = 2
  /\ next_agents[1] # "trader"
  /\ todo = {"synthesize"}

\* C4 as stated: every turn in which no collaborator call raises ends with
\* the finalizer having run (the scheduler stops at a step cap and finalizes).
C4_EveryTurnFinalizes ==
  (phase = "idle" /\ outcome \notin {"none", "collaborator_error"})
  => (outcome = "finalized" /\ synth_runs = 1)

\* C4 amended: the scheduler has no step cap of its own.  The finalizer is
\* scheduled only by a routing pass whose Pending Set is empty or requests a
\* trader whose stored result is failure-flagged; a turn whose routing passes
\* all request work is ended by the graph library's recursion limit, after
\* RecursionLimit supersteps, with an error and without the finalizer.
C4_NoStepCap ==
  /\ (phase = "running" /\ "synthesize" \in Tasks)
       => /\ prev = <<"orchestrator">>
          /\ (PendingEmpty(next_agents) \/ FailedTradeRequested(next_agents, results))
  /\ (phase = "running" /\ prev = <<"orchestrator">>
        /\ ~PendingEmpty(next_agents) /\ ~FailedTradeRequested(next_agents, results))
       => (Tasks \cap AgentNames # {} \/ Tasks = {"both_analysts"})
  /\ (phase = "idle" /\ outcome = "finalized")
       => (PendingEmpty(state.next_agents)
             \/ FailedTradeRequested(state.next_agents, state.results))
  /\ (phase = "idle" /\ outcome = "recursion_error")
       => (step = RecursionLimit /\ synth_runs = 0)

\* a turn ended by the recursion limit
C4_Witness ==
  /\ phase = "idle"
  /\ outcome = "recursion_error"
  /\ step = RecursionLimit
  /\ synth_runs = 0

\* C5 as stated: a turn cut short for non-convergence ends with an
\* assistant-originated entry as the last entry of the log the caller keeps.
C5_DegradedAnswer ==
  (phase = "idle" /\ outcome = "recursion_error")
  => (state.messages # <<>> /\ Last(state.messages).role = "ai")

\* C5 amended: a turn cut short for non-convergence ends with the exception
\* the caller catches; no entry is appended: the log the caller keeps ends
\* with the turn's user entry, holds nothing newer, and the Result Set the
\* caller keeps is the empty one it set before the turn.
C5_ErrorNoEntry ==
  (phase = "idle" /\ outcome = "recursion_error")
  => /\ state.messages # <<>>
     /\ Last(state.messages).role = "human"
     /\ \A i \in 1..Len(state.messages) : state.messages[i].id <= Last(state.messages).id
     /\ state.results = EmptyResults
     /\ synth_runs = 0

\* a second turn cut short after a first that was answered
C5_Witness ==
  /\ phase = "idle"
  /\ outcome = "recursion_error"
  /\ Len(state.messages) = 3
  /\ state.messages[2].role = "ai"
  /\ Last(state.messages).role = "human"

\* the position of the last user entry of a log (0 when there is none)
LastHumanAt(log) ==
  IF \E i \in 1..Len(log) : log[i].role = "human"
  THEN CHOOSE i \in 1..Len(log) :
         /\ log[i].role = "human"
         /\ \A j \in (i + 1)..Len(log) : log[j].role # "human"
  ELSE 0

\* the assistant entries of a log that are newer than its last user entry
AnswersToLastUser(log) ==
  {i \in 1..Len(log) : /\ log[i].role = "ai"
                       /\ LastHumanAt(log) > 0
                       /\ log[i].id > log[LastHumanAt(log)].id}

\* C6: while a turn runs no assistant entry newer than the turn's user entry
\* is in the log and the finalizer has not run; a turn that reached the
\* finalizer ends with the finalizer having run once and with exactly one
\* such entry, which is the last entry of the log.
C6_OneAnswer ==
  /\ phase = "running"
       => (synth_runs = 0 /\ AnswersToLastUser(messages) = {})
  /\ (phase = "idle" /\ outcome = "finalized")
       => /\ synth_runs = 1
          /\ AnswersToLastUser(state.messages) = {Len(state.messages)}
  /\ (phase = "idle" /\ outcome \in {"recursion_error", "collaborator_error"})
       => AnswersToLastUser(state.messages) = {}

\* a second turn answered
C6_Witness ==
  /\ phase = "idle"
  /\ outcome = "finalized"
  /\ turn = 2
  /\ synth_runs = 1
  /\ Len(state.messages) = 4
  /\ Last(state.messages).role = "ai"

\* C7 as stated: at the end of every turn the Pending Set is empty.
C7_PendingEmptyAtEnd ==
  (phase = "idle" /\ outcome # "none") => state.next_agents = <<>>

\* C7 amended: at the end of a turn the Pending Set is empty when the
\* orchestrator's last list was empty or the turn failed; when the
\* trading-failure guard ended the turn it still is the orchestrator's last
\* list, which holds trader.
C7_PendingAtEnd ==
  (phase = "idle" /\ outcome # "none")
  => IF outcome = "finalized"
          /\ FailedTradeRequested(state.next_agents, state.results)
     THEN "trader" \in Range(state.next_agents)
     ELSE state.next_agents = <<>>

\* a turn ended by the guard, with the list still there
C7_Witness ==
  /\ phase = "idle"
  /\ outcome = "finalized"
  /\ state.next_agents # <<>>
  /\ FailedTradeRequested(state.next_agents, state.results)

\* C8: for every current Result Set and two partial updates with disjoint
\* keys, merging them in either order gives the same Result Set, which holds
\* every key of both with the update's text (and keeps the current keys).
C8_MergeCommutes ==
  (reducer.done /\ (DOMAIN reducer.a) \cap (DOMAIN reducer.b) = {})
  => /\ reducer.ab = reducer.ba
     /\ DOMAIN reducer.ab = (DOMAIN reducer.cur) \cup (DOMAIN reducer.a) \cup (DOMAIN reducer.b)
     /\ \A k \in DOMAIN reducer.a : reducer.ab[k] = reducer.a[k]
     /\ \A k \in DOMAIN reducer.b : reducer.ab[k] = reducer.b[k]

\* two non-empty disjoint updates, one of them rewriting a current key
C8_Witness ==
  /\ reducer.done
  /\ DOMAIN reducer.a = {"trader"}
  /\ DOMAIN reducer.b = {"price", "reporter"}
  /\ "trader" \in DOMAIN reducer.cur
  /\ reducer.cur["trader"] # reducer.a["trader"]
  /\ reducer.ab = reducer.ba
  /\ reducer.ab["trader"] = reducer.a["trader"]

\* C9: on a log of fewer than Threshold (10) entries the compactor returns
\* the empty update and calls no summarisation collaborator: the channels
\* after it are the caller's log and the reset Result Set and Pending Set,
\* and compacting that log again gives the empty update again.  From
\* Threshold entries on it calls the collaborator once and changes the log.
C9_BelowThreshold ==
  (phase = "running" /\ prev = <<"manage_length">>)
  => IF Len(state.messages) < 10
     THEN /\ messages = state.messages
          /\ results = EmptyResults
          /\ next_agents = <<>>
          /\ summary_calls = 0
          /\ manage_update(messages, nextId) = EmptyUpdate
          /\ add_messages(messages, <<>>) = messages
     ELSE /\ summary_calls = 1
          /\ messages # state.messages
          /\ Len(messages) < Len(state.messages)

\* the compactor has run on a log of nine entries
C9_Witness ==
  /\ phase = "running"
  /\ prev = <<"manage_length">>
  /\ Len(state.messages) = 9
  /\ messages = state.messages
  /\ summary_calls = 0

\* C10: after the compactor's update is merged, the last two entries of the
\* log it was invoked on are in the log, unchanged and in the same order.
C10_KeepsLastTwo ==
  (phase = "running" /\ prev = <<"manage_length">>)
  => LET old == state.messages
         n   == Len(old)
     IN /\ n >= 1 => \E j \in 1..Len(messages) : messages[j] = old[n]
        /\ n >= 2 => \E i \in 1..Len(messages), j \in 1..Len(messages) :
                       /\ i < j
                       /\ messages[i] = old[n - 1]
                       /\ messages[j] = old[n]

\* the compactor has summarised a log of at least Threshold entries
C10_Witness ==
  /\ phase = "running"
  /\ prev = <<"manage_length">>
  /\ Len(state.messages) >= Threshold
  /\ summary_calls = 1
  /\ messages # state.messages
  /\ \E j \in 1..Len(messages) : messages[j] = Last(state.messages)

\* C11: when the compactor has run on a log of n >= Threshold (10) entries,
\* the merged log has exactly 3 entries: the last two entries of the log it
\* ran on and exactly one entry that is new, which is system-originated; the
\* id of none of the n - 2 older entries is left, and the summarisation
\* collaborator was called once.
C11_ThreeEntries ==
  (phase = "running" /\ prev = <<"manage_length">> /\ Len(state.messages) >= 10)
  => LET old == state.messages
         n   == Len(old)
     IN /\ Len(messages) = 3
        /\ {old[n - 1], old[n]} \subseteq Range(messages)
        /\ Cardinality({i \in 1..Len(messages) : messages[i].id \notin Ids(old)}) = 1
        /\ \A i \in 1..Len(messages) :
             messages[i].id \notin Ids(old) => messages[i].role = "system"
        /\ \A i \in 1..(n - 2) : old[i].id \notin Ids(messages)
        /\ summary_calls = 1

\* the compactor has run on a log of twelve entries
C11_Witness ==
  /\ phase = "running"
  /\ prev = <<"manage_length">>
  /\ Len(state.messages) = 12
  /\ Len(messages) = 3
  /\ \E i \in 1..3 : messages[i].role = "system"

\* C12: after a routing pass to which the trading guard does not apply, an
\* empty Pending Set leads to the finalizer alone, no work unit running; a
\* Pending Set of one name leads to that work unit alone, and the superstep
\* after that unit is the orchestrator alone.
C12_EmptyOrSingle ==
  /\ (phase = "running" /\ prev = <<"orchestrator">>
        /\ ~FailedTradeRequested(next_agents, results))
       => /\ Len(next_agents) = 0 => Tasks = {"synthesize"}
          /\ Len(next_agents) = 1 => Tasks = {next_agents[1]}
  /\ (phase = "running" /\ Len(next_agents) = 1 /\ prev # <<"orchestrator">>)
       => /\ prev = next_agents
          /\ Tasks = {"orchestrator"}
          /\ next_agents[1] \in DOMAIN results

\* the reporter alone was dispatched, has returned, and routing is next
C12_Witness ==
  /\ phase = "running"
  /\ next_agents = <<"reporter">>
  /\ prev = <<"reporter">>
  /\ todo = {"orchestrator"}
  /\ DOMAIN results = {"reporter"}

\* C13: after a routing pass whose Pending Set has two or more names, price
\* and fundamental among them in any positions, and to which the trading
\* guard does not apply, the pass-through node of the fan-out runs alone,
\* then price and fundamental and nothing else, then the orchestrator alone:
\* no other requested name runs before the next routing pass.  When the
\* guard applies, the finalizer runs instead.
C13_PairOnly ==
  /\ (phase = "running" /\ prev = <<"orchestrator">>
        /\ Len(next_agents) >= 2 /\ Pair \subseteq Range(next_agents))
       => IF FailedTradeRequested(next_agents, results)
          THEN Tasks = {"synthesize"}
          ELSE Tasks = {"both_analysts"}
  /\ (phase = "running" /\ prev = <<"both_analysts">>)
       => /\ Tasks = Pair
          /\ Len(next_agents) >= 2
          /\ Pair \subseteq Range(next_agents)
  /\ (phase = "running" /\ Range(prev) = Pair) => Tasks = {"orchestrator"}

\* three names asked for, the pair behind another name: one of the pair has
\* returned, the other is running, the third name is not
C13_Witness ==
  /\ phase = "running"
  /\ prev = <<"both_analysts">>
  /\ Len(next_agents) = 3
  /\ next_agents[1] \notin Pair
  /\ Len(ran) = 1
  /\ Tasks = Pair

\* C14 as stated: after a routing pass whose Pending Set has two or more
\* names without both price and fundamental, the first name of the list runs
\* alone.
C14_FirstOnly ==
  (phase = "running" /\ prev = <<"orchestrator">>
     /\ Len(next_agents) >= 2 /\ ~(Pair \subseteq Range(next_agents)))
  => Tasks = {next_agents[1]}

\* C14 amended: after such a routing pass the first name of the list runs
\* alone (also when the list repeats one name) and the orchestrator alone
\* runs after it, unless the trading guard applies: then no name of the list
\* runs and the finalizer does.
C14_FirstUnlessGuard ==
  /\ (phase = "running" /\ prev = <<"orchestrator">>
        /\ Len(next_agents) >= 2 /\ ~(Pair \subseteq Range(next_agents)))
       => IF FailedTradeRequested(next_agents, results)
          THEN Tasks = {"synthesize"}
          ELSE Tasks = {next_agents[1]}
  /\ (phase = "running" /\ prev # <<"orchestrator">>
        /\ Len(next_agents) >= 2 /\ ~(Pair \subseteq Range(next_agents)))
       => /\ prev = <<next_agents[1]>>
          /\ Tasks = {"orchestrator"}

\* three names, the first one twice: it has run alone and routing is next
C14_Witness ==
  /\ phase = "running"
  /\ Len(next_agents) = 3
  /\ next_agents[1] = next_agents[2]
  /\ next_agents[3] # next_agents[1]
  /\ ~(Pair \subseteq Range(next_agents))
  /\ prev = <<next_agents[1]>>
  /\ todo = {"orchestrator"}

\* C15: when the finalizer has run on a Result Set that holds the key
\* reporter, the entry it appended holds exactly the reporter's text,
\* whatever other keys there are, and the composition collaborator was not
\* called.
C15_ReportVerbatim ==
  (phase = "idle" /\ outcome = "finalized" /\ "reporter" \in DOMAIN state.results)
  => /\ Last(state.messages).role = "ai"
     /\ Last(state.messages).content = state.results["reporter"]
     /\ composer_calls = <<>>

\* all five keys were there
C15_Witness ==
  /\ phase = "idle"
  /\ outcome = "finalized"
  /\ DOMAIN state.results = AgentNames
  /\ Last(state.messages).content = "report_text"
  /\ composer_calls = <<>>

\* the texts of a Result Set under the keys price, fundamental, trader,
\* portfolio_advisor, in that order
TextUnder(res, k) == IF k \in DOMAIN res THEN <<res[k]>> ELSE <<>>
InFixedOrder(res) ==
  TextUnder(res, "price") \o TextUnder(res, "fundamental")
    \o TextUnder(res, "trader") \o TextUnder(res, "portfolio_advisor")

\* C16: when the finalizer has run on a non-empty Result Set without the key
\* reporter, the composition collaborator was called exactly once, with the
\* texts present in the order price, fundamental, trader, portfolio_advisor
\* whatever the order the keys were inserted in, and the appended entry holds
\* the collaborator's answer, which is none of the stored texts.
C16_ComposedInOrder ==
  (phase = "idle" /\ outcome = "finalized"
     /\ state.results # EmptyResults /\ "reporter" \notin DOMAIN state.results)
  => /\ Len(composer_calls) = 1
     /\ composer_calls[1] = InFixedOrder(state.results)
     /\ Last(state.messages).role = "ai"
     /\ Last(state.messages).content = "composed_text"
     /\ \A k \in DOMAIN state.results : Last(state.messages).content # state.results[k]

\* the keys came in as trader, fundamental, price
C16_Witness ==
  /\ phase = "idle"
  /\ outcome = "finalized"
  /\ key_order = <<"trader", "fundamental", "price">>
  /\ Len(composer_calls) = 1
  /\ composer_calls[1] = <<"price_text", "fundamental_text", state.results["trader"]>>

\* C17: when the finalizer has run on an empty Result Set, the entry it
\* appended is the fixed fallback message and the composition collaborator
\* was not called.
C17_Fallback ==
  (phase = "idle" /\ outcome = "finalized" /\ state.results = EmptyResults)
  => /\ Last(state.messages).role = "ai"
     /\ Last(state.messages).content = "fallback_text"
     /\ composer_calls = <<>>
     /\ synth_runs = 1

\* a second turn answered with the fallback
C17_Witness ==
  /\ phase = "idle"
  /\ outcome = "finalized"
  /\ turn = 2
  /\ state.results = EmptyResults
  /\ Last(state.messages).content = "fallback_text"

\* the pieces of a text, case put aside
Folded(piece) ==
  CASE piece = "PRICE" -> "price" [] piece = "DONE" -> "done" [] OTHER -> piece
IsSeparator(piece) == piece \in {" ", ","}

\* the text holds the termination marker somewhere
MarkerAnywhere(text) == \E i \in 1..Len(text) : Folded(text[i]) = "done"

\* the piece at i is a token of its own and is a work-unit name
NameTokenAt(text, i) ==
  /\ Folded(text[i]) \in AgentNames
  /\ (i = 1 \/ IsSeparator(text[i - 1]))
  /\ (i = Len(text) \/ IsSeparator(text[i + 1]))

\* the recognised tokens of a text, in their order of occurrence
NameTokens(text) ==
  LET at == SelectSeq([i \in 1..Len(text) |-> i], LAMBDA i : NameTokenAt(text, i))
  IN [k \in 1..Len(at) |-> Folded(text[at[k]])]

\* C18: for every answer text (compared in lower case, as agents.py:157
\* makes it) the parsed Pending Set is empty when the text holds "done"
\* anywhere or has no token that is one of the five names; otherwise it is
\* the sequence of the tokens that are names, in their order of occurrence,
\* tokens being what blanks and commas separate.  Every element of a Pending
\* Set is one of the five names; the parser gives a list for every text.
C18_ParseRule ==
  parsed.done
  => /\ \A i \in 1..Len(parsed.pending) : parsed.pending[i] \in AgentNames
     /\ IF MarkerAnywhere(parsed.answer) \/ NameTokens(parsed.answer) = <<>>
        THEN parsed.pending = <<>>
        ELSE parsed.pending = NameTokens(parsed.answer)

\* an upper-case name and a lower-case one, a comma between them
C18_Witness ==
  /\ parsed.done
  /\ parsed.answer = <<"PRICE", ",", "trader">>
  /\ parsed.pending = <<"price", "trader">>

\* C19 as stated: a turn in which a collaborator's call failed still ends
\* with the finalizer having run, the failure recorded in the Result Set as
\* a text that begins with the failure marker.
C19_FailureRecorded ==
  (phase = "idle" /\ outcome = "collaborator_error")
  => /\ synth_runs = 1
     /\ \E k \in DOMAIN state.results : StartsWithFailureMarker(state.results[k])

\* C19 amended: a collaborator's call that raises inside a node ends the
\* turn there: the finalizer does not run, no entry is appended, and the
\* caller keeps the log that ends with the turn's user entry, with the empty
\* Result Set and Pending Set it set before the turn; no failure text is
\* recorded.
C19_FailureAborts ==
  (phase = "idle" /\ outcome = "collaborator_error")
  => /\ synth_runs = 0
     /\ composer_calls = <<>>
     /\ state.results = EmptyResults
     /\ state.next_agents = <<>>
     /\ state.messages # <<>>
     /\ Last(state.messages).role = "human"
     /\ AnswersToLastUser(state.messages) = {}

\* a call raised in the fifth superstep, after a work unit had stored its text
C19_Witness ==
  /\ phase = "idle"
  /\ outcome = "collaborator_error"
  /\ step = 5
  /\ state.results = EmptyResults
  /\ Last(state.messages).role = "human"

\* C20: once a call of buy_stock / sell_stock has failed in a turn, no such
\* call is made again in that turn: the trader's stored text begins with the
\* failure marker and the trader is not dispatched again.
C20_NoOrderAfterFailure ==
  /\ ~trade_retried
  /\ (phase = "running" /\ trade_failed)
       => /\ "trader" \in DOMAIN results
          /\ StartsWithFailureMarker(results["trader"])
          /\ "trader" \notin todo

\* C21: after a turn that fails with an error the caller keeps a state it can
\* resume from: all through the turn its state is the pre-turn log with the
\* turn's user entry appended, an empty Result Set and an empty Pending Set;
\* the failure leaves that state as it is, whatever compaction or work unit
\* had acted inside the graph.
C21_ResumableAfterError ==
  /\ [][(phase = "idle" /\ phase' = "running")
          => /\ state'.messages = Append(state.messages, HumanMessage(nextId))
             /\ state'.results = EmptyResults
             /\ state'.next_agents = <<>>]_vars
  /\ [][(phase = "running" /\ phase' = "running") => state' = state]_vars
  /\ [][(phase = "running" /\ phase' = "idle"
           /\ outcome' \in {"recursion_error", "collaborator_error"})
          => state' = state]_vars
  /\ []((phase = "idle" /\ outcome \in {"recursion_error", "collaborator_error"})
          => /\ state.results = EmptyResults
             /\ state.next_agents = <<>>
             /\ state.messages # <<>>
             /\ Last(state.messages).role = "human")

\* the turn failed after its compaction had replaced the log inside the
\* graph: the caller's log is still the long one
C21_Witness ==
  /\ phase = "idle"
  /\ outcome \in {"recursion_error", "collaborator_error"}
  /\ summary_calls = 1
  /\ Len(state.messages) >= Threshold
  /\ state.results = EmptyResults
  /\ state.next_agents = <<>>

\* C22: every key of the Result Set names a work unit that returned in the
\* current turn: the Result Set is empty when the turn starts, whatever the
\* turn before left, and a key appears only when the superstep in which its
\* work unit returned closes.
C22_KeysOfThisTurn ==
  /\ [][(phase = "idle" /\ phase' = "running")
          => /\ results' = EmptyResults
             /\ state'.results = EmptyResults]_vars
  /\ [][(phase = "running" /\ phase' = "running")
          => /\ (DOMAIN results' \ DOMAIN results) \subseteq (Range(prev') \cap AgentNames)
             /\ (todo' # {} /\ ran' # <<>>) => results' = results]_vars
  /\ [](phase = "running" => DOMAIN results = Range(key_order))

\* the second turn, after a first turn that stored other texts: only the
\* reporter, which returned in this turn, has a key
C22_Witness ==
  /\ phase = "running"
  /\ turn = 2
  /\ DOMAIN results = {"reporter"}
  /\ "reporter" \notin DOMAIN state.results
  /\ \E i \in DOMAIN messages : messages[i].content = "composed_text"

\* C23: a routing pass changes only the Pending Set: the orchestrator's
\* update names next_agents alone, and the Conversation Log and the Result
\* Set are the same after the orchestrator's superstep as before it.
C23_RouterWritesPendingOnly ==
  [][(phase = "running" /\ todo = {"orchestrator"})
       => /\ \A d \in Decisions : DOMAIN orchestrator_update(d) = {"next_agents"}
          /\ phase' = "running"
               => /\ messages' = messages
                  /\ results' = results
                  /\ prev' = <<"orchestrator">>
          /\ state'.messages = state.messages
          /\ state'.results = state.results]_vars

\* the second routing pass of a turn has replaced the Pending Set and left
\* the stored text and the log as they were
C23_Witness ==
  /\ phase = "running"
  /\ prev = <<"orchestrator">>
  /\ step = 5
  /\ DOMAIN results = {"price"}
  /\ next_agents = <<"reporter">>
  /\ todo = {"reporter"}
  /\ messages = state.messages

\* the work units among the nodes of the current superstep
Executing == Tasks \cap AgentNames

\* a routing pass is due after a superstep of work units
BackFromUnits ==
  /\ phase = "running"
  /\ todo = {"orchestrator"}
  /\ prev # <<>>
  /\ Range(prev) \subseteq AgentNames

\* C24: the Pending Set is cleared after dispatching: while a dispatched work
\* unit (or fan-out group) is executing, and when control is back at routing,
\* the Pending Set does not hold the names that were dispatched.
C24_ClearedAfterDispatch ==
  /\ (phase = "running" /\ Executing # {}) => Executing \cap Range(next_agents) = {}
  /\ BackFromUnits => Range(prev) \cap Range(next_agents) = {}

\* C24 amended: nothing clears the Pending Set after dispatching: while a
\* dispatched work unit (or fan-out group) is executing, and when control is
\* back at routing, the Pending Set still holds the names that were
\* dispatched; within a turn it changes only by a routing pass.
C24_KeptAfterDispatch ==
  /\ []((phase = "running" /\ Executing # {}) => Executing \subseteq Range(next_agents))
  /\ [](BackFromUnits => Range(prev) \subseteq Range(next_agents))
  /\ [][(phase = "running" /\ phase' = "running" /\ next_agents' # next_agents)
          => (todo = {"orchestrator"} /\ prev' = <<"orchestrator">>)]_vars

\* the trader has returned and routing is due: the list still names it
C24_Witness ==
  /\ BackFromUnits
  /\ prev = <<"trader">>
  /\ next_agents = <<"trader", "reporter">>
  /\ "trader" \in DOMAIN results

\* the work units a routing pass has dispatched: both analysts for the
\* fan-out node, else the work unit in todo
UnitsOf(nodes) ==
  IF "both_analysts" \in nodes THEN Pair ELSE nodes \cap AgentNames

C26_MergePerField ==
  merged.done
  => LET st  == merged.st
         u   == merged.u
         out == merged.out
     IN /\ DOMAIN out = {"messages", "results", "next_agents"}
        /\ DOMAIN u = {} => out = st
        /\ DOMAIN u = {"results"}
             => /\ out.messages = st.messages
                /\ out.next_agents = st.next_agents
                /\ DOMAIN out.results = DOMAIN st.results \cup DOMAIN u.results
                /\ \A k \in DOMAIN u.results : out.results[k] = u.results[k]
                /\ \A k \in DOMAIN st.results \ DOMAIN u.results :
                     out.results[k] = st.results[k]

\* an update naming trader and reporter, merged into a state that held
\* another text for trader and one for price, a log and a Pending Set
C26_Witness ==
  /\ merged.done
  /\ DOMAIN merged.u = {"results"}
  /\ DOMAIN merged.u.results = {"trader", "reporter"}
  /\ DOMAIN merged.st.results = {"price", "trader"}
  /\ merged.st.results["trader"] # merged.u.results["trader"]
  /\ merged.out.results["trader"] = merged.u.results["trader"]
  /\ merged.st.messages # <<>>
  /\ merged.st.next_agents # <<>>

\* C27: at most two nodes are in a superstep, and two only as price and
\* fundamental started together by the fan-out node; compaction, routing,
\* the fan-out node, the finalizer, trader, portfolio_advisor and reporter
\* each run alone.
C27_BoundedFanOut ==
  phase = "running"
  => /\ Tasks # {}
     /\ Cardinality(Tasks) <= 2
     /\ Cardinality(Tasks) = 2 => (Tasks = Pair /\ prev = <<"both_analysts">>)
     /\ (Tasks \ Pair) # {} => Cardinality(Tasks) = 1

\* the price analyst has returned while the fundamental analyst of the same
\* group is still to return
C27_Witness ==
  /\ phase = "running"
  /\ prev = <<"both_analysts">>
  /\ ran = <<"price">>
  /\ todo = {"fundamental"}

\* C28: both tasks of a fan-out group read the state as it was when the
\* group was dispatched: the fan-out node leaves the channels as the routing
\* pass left them, and while one of price and fundamental is still to return
\* the other's text is held back as a pending write, so the log, the Result
\* Set and the Pending Set do not change, whichever returns first.
C28_SameSnapshot ==
  /\ [][(phase = "running" /\ todo = {"both_analysts"} /\ phase' = "running")
          => /\ todo' = Pair
             /\ Channels' = Channels]_vars
  /\ [][(phase = "running" /\ Tasks = Pair /\ phase' = "running" /\ Tasks' = Pair)
          => /\ Channels' = Channels
             /\ Len(writes') = Len(writes) + 1
             /\ state' = state]_vars

\* the fundamental analyst has returned first: its text waits among the
\* pending writes and the Result Set the price analyst reads has no key
C28_Witness ==
  /\ phase = "running"
  /\ Tasks = Pair
  /\ ran = <<"fundamental">>
  /\ todo = {"price"}
  /\ writes = <<unit_update("fundamental", "fundamental_text")>>
  /\ results = EmptyResults

\* C29: within a turn the keys of the Result Set only grow: no step of a
\* turn removes a key, up to the state the finalizer's superstep hands back,
\* so each routing pass sees the keys the pass before saw.
C29_KeysOnlyGrow ==
  /\ [][(phase = "running" /\ phase' = "running")
          => DOMAIN results \subseteq DOMAIN results']_vars
  /\ [][(phase = "running" /\ phase' = "idle" /\ outcome' = "finalized")
          => DOMAIN results \subseteq DOMAIN state'.results]_vars

\* the third routing pass of a turn is due: trader's key, stored before the
\* second pass, is still there beside price's
C29_Witness ==
  /\ phase = "running"
  /\ todo = {"orchestrator"}
  /\ step = 6
  /\ key_order = <<"trader", "price">>
  /\ DOMAIN results = {"trader", "price"}

\* C30: a work unit's update names the Result Set alone and in it one key,
\* the work unit's own name: a returned unit's pending write has that shape,
\* and the superstep of a work unit adds the key of that unit, leaves every
\* other key's text, the log and the Pending Set as they were.
C30_OwnKeyOnly ==
  /\ [](\A a \in AgentNames : \A text \in OutputsOf(a) :
          /\ DOMAIN unit_update(a, text) = {"results"}
          /\ DOMAIN unit_update(a, text).results = {a})
  /\ []((phase = "running" /\ Executing # {})
          => \A i \in 1..Len(writes) :
               /\ DOMAIN writes[i] = {"results"}
               /\ DOMAIN writes[i].results = {ran[i]})
  /\ [][(phase = "running" /\ Executing # {} /\ phase' = "running" /\ todo' = {"orchestrator"})
          => /\ messages' = messages
             /\ next_agents' = next_agents
             /\ DOMAIN results' = DOMAIN results \cup Executing
             /\ \A k \in DOMAIN results \ Executing : results'[k] = results[k]]_vars

\* portfolio_advisor has returned after the price analyst: both keys are in
\* the Result Set, the log and the Pending Set as before
C30_Witness ==
  /\ phase = "running"
  /\ prev = <<"portfolio_advisor">>
  /\ todo = {"orchestrator"}
  /\ DOMAIN results = {"price", "portfolio_advisor"}
  /\ results["price"] = "price_text"
  /\ next_agents = <<"portfolio_advisor">>
  /\ messages = state.messages

\* C31: a work unit returns after a bounded number of calls of its
\* collaborator, whatever it answers: at most 3 for price, 4 for
\* fundamental, 2 for trader, 8 for portfolio_advisor; a unit whose rounds
\* ran out while the collaborator still asked for tools writes its own key
\* with its fixed text, not the collaborator's answer or a tool's output.
C31_BoundedRounds ==
  /\ loop.calls <= (CASE loop.unit = "price"             -> 3
                      [] loop.unit = "fundamental"       -> 4
                      [] loop.unit = "trader"            -> 2
                      [] loop.unit = "portfolio_advisor" -> 8
                      [] OTHER                           -> 1)
  /\ loop.done
       => /\ loop.calls >= 1
          /\ DOMAIN loop.update = {"results"}
          /\ DOMAIN loop.update.results = {loop.unit}
          /\ Last(loop.log) = "tool_output"
               => /\ loop.calls = LoopBudget(loop.unit)
                  /\ loop.update.results[loop.unit] =
                       (CASE loop.unit = "price"       -> "price_analysis_complete"
                          [] loop.unit = "fundamental" -> "fundamental_analysis_complete"
                          [] loop.unit = "trader"      -> "trading_complete"
                          [] OTHER                     -> "i_can_help")
          /\ Last(loop.log) # "tool_output"
               => loop.update.results[loop.unit] \in SaidBy(loop.unit)

\* portfolio_advisor's collaborator asked for tools in each of its eight
\* rounds: the unit has returned its fixed text
C31_Witness ==
  /\ loop.done
  /\ loop.unit = "portfolio_advisor"
  /\ loop.calls = 8
  /\ Last(loop.log) = "tool_output"
  /\ loop.update = [results |-> [portfolio_advisor |-> "i_can_help"]]

\* C32: compaction replaces the removed prefix in place: in the merged log
\* the summary entry stands where the summarised prefix stood, before the
\* two entries that were kept, so the last entry of the log after compaction
\* is the entry that was last before it.
C32_SummaryInPlace ==
  (phase = "running" /\ prev = <<"manage_length">> /\ Len(state.messages) >= 10)
  => LET old == state.messages
         n   == Len(old)
     IN /\ Len(messages) = 3
        /\ messages[1].role = "system"
        /\ messages[1].id \notin Ids(old)
        /\ messages[2] = old[n - 1]
        /\ messages[3] = old[n]

\* the turn is over with a failure-flagged trader text and no report
FailedTradeFinalized ==
  /\ phase = "idle"
  /\ outcome = "finalized"
  /\ "trader" \in DOMAIN state.results
  /\ StartsWithFailureMarker(state.results["trader"])
  /\ "reporter" \notin DOMAIN state.results

\* C33: when the trader's text is failure-flagged and there is no reporter
\* text, the entry the finalizer appends is the trader's failure text as it
\* is, not a text of the composition collaborator.
C33_FailureVerbatim ==
  FailedTradeFinalized
  => /\ Last(state.messages).role = "ai"
     /\ Last(state.messages).content = state.results["trader"]

\* C33 amended: when the trader's text is failure-flagged and there is no
\* reporter text, the finalizer hands the trader's text, with the other
\* texts, to the composition collaborator, and the entry it appends is the
\* collaborator's answer, not the failure text.
C33_FailureComposed ==
  FailedTradeFinalized
  => /\ Last(state.messages).role = "ai"
     /\ Last(state.messages).content = "composed_text"
     /\ composer_calls = <<Combined(state.results)>>
     /\ state.results["trader"] \in Range(composer_calls[1])

\* a turn finalized with a failed trade beside a price text
C33_Witness ==
  /\ FailedTradeFinalized
  /\ DOMAIN state.results = {"price", "trader"}
  /\ Last(state.messages).content = "composed_text"
  /\ composer_calls = <<<<"price_text", "x_trader_text">>>>

\* a routing pass is about to run
AtRoutingPass == phase = "running" /\ "orchestrator" \in todo

\* C34: with one user entry appended per turn and every compaction call
\* returning, the log is bounded: at most 9 entries, or exactly 3 after a
\* compaction, at every routing pass, and at most 10 entries at the end of
\* every turn (a turn that got past its compaction superstep).
C34_LogBounded ==
  /\ AtRoutingPass
       => /\ Len(messages) <= 9
          /\ summary_calls = 1 => Len(messages) = 3
  /\ (phase = "idle" /\ outcome # "none" /\ step >= 2) => Len(state.messages) <= 10

\* C34 amended: at every routing pass the log has at most 9 entries, exactly
\* 3 in a turn whose compaction ran; at the end of a turn the finalizer
\* completed the caller's log has at most 10 entries; a turn that fails
\* leaves the caller the log it started the turn with, one entry longer than
\* at the end of the turn before, whatever compaction did inside the graph.
C34_LogBoundedUnlessFailed ==
  /\ [](AtRoutingPass
          => /\ Len(messages) <= 9
             /\ summary_calls = 1 => Len(messages) = 3)
  /\ []((phase = "idle" /\ outcome = "finalized") => Len(state.messages) <= 10)
  /\ [][(phase = "idle" /\ phase' = "running")
          => Len(state'.messages) = Len(state.messages) + 1]_vars
  /\ [][(phase = "running" /\ phase' = "idle" /\ outcome' # "finalized")
          => Len(state'.messages) = Len(state.messages)]_vars

\* a turn that started on a log of ten entries failed after its compaction:
\* the caller's log has eleven entries
C34_Witness ==
  /\ phase = "idle"
  /\ outcome = "collaborator_error"
  /\ summary_calls = 1
  /\ step >= 2
  /\ Len(state.messages) = 11

\* C35: the compactor runs once in a turn, as the turn's first superstep and
\* never inside the routing loop; from the end of its superstep to the start
\* of the finalizer's the log does not change, however many routing passes
\* and work units run.
C35_CompactsOnceFirst ==
  /\ [](phase = "running"
          => /\ step = 1 <=> Tasks = {"manage_length"}
             /\ step >= 2 => "manage_length" \notin Tasks
             /\ summary_calls <= 1)
  /\ [][(phase = "running" /\ step >= 2 /\ "synthesize" \notin todo /\ phase' = "running")
          => messages' = messages]_vars
  /\ [][(phase = "running" /\ step = 1 /\ phase' = "running")
          => (step' = 2 /\ todo' = {"orchestrator"})]_vars

\* the finalizer is due after a compaction, two routing passes and a work
\* unit: the log is the three entries the compaction left
C35_Witness ==
  /\ phase = "running"
  /\ todo = {"synthesize"}
  /\ step = 5
  /\ summary_calls = 1
  /\ Len(messages) = 3
  /\ results # EmptyResults

\* C36: within a turn no work unit is dispatched more than once: a work unit
\* whose key is in the Result Set, a trader whose trade went through
\* included, does not run again in that turn, whatever the orchestrator
\* answers.
C36_NoRepeat ==
  (phase = "running" /\ Executing # {}) => Executing \cap DOMAIN results = {}

\* graph.py:93-101  the keys of the conditional edge's mapping
EdgeTargets ==
  {"price", "fundamental", "trader", "portfolio_advisor", "reporter",
   "both_analysts", "done"}

\* C37: in every reachable state the routing function's result is one of
\* the declared edge targets, so the dispatch finds its node, and the keys
\* of the Result Set are among the five work-unit names; this for every
\* answer of the decision collaborator, the caller starting each turn with
\* an empty Pending Set.
C37_KnownTargets ==
  /\ route_from_orchestrator(next_agents, results) \in EdgeTargets
  /\ route_from_orchestrator(state.next_agents, state.results) \in EdgeTargets
  /\ \A d \in Decisions : route_from_orchestrator(d, results) \in EdgeTargets
  /\ DOMAIN results \subseteq AgentNames
  /\ DOMAIN state.results \subseteq AgentNames
  /\ Range(next_agents) \subseteq AgentNames
  /\ phase = "running"
       => /\ todo \subseteq Nodes
          /\ prev = <<"orchestrator">>
               => todo = {RouteTarget(route_from_orchestrator(next_agents, results))}
          /\ step = 1 => next_agents = <<>>

\* the second routing pass of a turn answered fundamental and price: the
\* fan-out node is due, a text stored under trader
C37_Witness ==
  /\ phase = "running"
  /\ prev = <<"orchestrator">>
  /\ next_agents = <<"fundamental", "price">>
  /\ route_from_orchestrator(next_agents, results) = "both_analysts"
  /\ todo = {"both_analysts"}
  /\ DOMAIN results = {"trader"}

=============================================================================
